---- MODULE Spec2Model ----
(* Model of watch_almeida.py: row parsing, status classification,        *)
(* de-duplication, the ordering key, the two-pass frame extraction and   *)
(* the fetch_all / main pipeline.  Text is kept as strings and the       *)
(* regular expressions are evaluated character by character.             *)
EXTENDS Integers, Sequences, FiniteSets, TLC

(* ------------------------------------------------------------------ *)
(* Strings                                                            *)
(* ------------------------------------------------------------------ *)

Char(s, i) == IF i >= 1 /\ i <= Len(s) THEN SubSeq(s, i, i) ELSE ""

\* str.lower() and str.upper() on one character
LowerOf ==
    "A" :> "a" @@ "B" :> "b" @@ "C" :> "c" @@ "D" :> "d" @@ "E" :> "e" @@ "F" :> "f" @@
    "G" :> "g" @@ "H" :> "h" @@ "I" :> "i" @@ "J" :> "j" @@ "K" :> "k" @@ "L" :> "l" @@
    "M" :> "m" @@ "N" :> "n" @@ "O" :> "o" @@ "P" :> "p" @@ "Q" :> "q" @@ "R" :> "r" @@
    "S" :> "s" @@ "T" :> "t" @@ "U" :> "u" @@ "V" :> "v" @@ "W" :> "w" @@ "X" :> "x" @@
    "Y" :> "y" @@ "Z" :> "z"

UpperOf ==
    "a" :> "A" @@ "b" :> "B" @@ "c" :> "C" @@ "d" :> "D" @@ "e" :> "E" @@ "f" :> "F" @@
    "g" :> "G" @@ "h" :> "H" @@ "i" :> "I" @@ "j" :> "J" @@ "k" :> "K" @@ "l" :> "L" @@
    "m" :> "M" @@ "n" :> "N" @@ "o" :> "O" @@ "p" :> "P" @@ "q" :> "Q" @@ "r" :> "R" @@
    "s" :> "S" @@ "t" :> "T" @@ "u" :> "U" @@ "v" :> "V" @@ "w" :> "W" @@ "x" :> "X" @@
    "y" :> "Y" @@ "z" :> "Z"

LowerChar(c) == IF c \in DOMAIN LowerOf THEN LowerOf[c] ELSE c

UpperChar(c) == IF c \in DOMAIN UpperOf THEN UpperOf[c] ELSE c

\* character-wise maps are computed by halves to keep the recursion shallow
RECURSIVE Lower(_)
Lower(s) ==
    IF Len(s) <= 1 THEN LowerChar(s)
    ELSE Lower(SubSeq(s, 1, Len(s) \div 2)) \o Lower(SubSeq(s, Len(s) \div 2 + 1, Len(s)))

RECURSIVE Upper(_)
Upper(s) ==
    IF Len(s) <= 1 THEN UpperChar(s)
    ELSE Upper(SubSeq(s, 1, Len(s) \div 2)) \o Upper(SubSeq(s, Len(s) \div 2 + 1, Len(s)))

\* Python's  w in s
Contains(s, w) ==
    \E i \in 1..(Len(s) - Len(w) + 1) : SubSeq(s, i, i + Len(w) - 1) = w

\* prefix test at position i, ignoring case (re.I)
StartsWithCI(s, i, w) ==
    /\ i + Len(w) - 1 <= Len(s)
    /\ LowerChar(Char(s, i)) = LowerChar(Char(w, 1))
    /\ Lower(SubSeq(s, i, i + Len(w) - 1)) = Lower(w)

IsDigit(c) == c \in {"0", "1", "2", "3", "4", "5", "6", "7", "8", "9"}

\* \s and str.isspace() over the characters used here
IsSpace(c) == c \in {" ", "\t", "\n", "\r"}

DigitsAt(s, k, n) ==
    /\ k >= 1
    /\ k + n - 1 <= Len(s)
    /\ \A j \in k..(k + n - 1) : IsDigit(Char(s, j))

\* first index >= k that does not hold white space (Len(s) + 1 if none)
RECURSIVE SkipSpaces(_, _)
SkipSpaces(s, k) == IF IsSpace(Char(s, k)) THEN SkipSpaces(s, k + 1) ELSE k

\* str.strip()
RECURSIVE LStrip(_)
LStrip(s) == IF s # "" /\ IsSpace(Head(s)) THEN LStrip(Tail(s)) ELSE s

RECURSIVE RStrip(_)
RStrip(s) ==
    IF s # "" /\ IsSpace(Char(s, Len(s))) THEN RStrip(SubSeq(s, 1, Len(s) - 1)) ELSE s

Strip(s) == RStrip(LStrip(s))

\* str.replace(" ", "")
RECURSIVE RemoveBlanks(_)
RemoveBlanks(s) ==
    IF Len(s) <= 1 THEN (IF s = " " THEN "" ELSE s)
    ELSE RemoveBlanks(SubSeq(s, 1, Len(s) \div 2))
         \o RemoveBlanks(SubSeq(s, Len(s) \div 2 + 1, Len(s)))

\* str.split(): the maximal runs of non-white-space characters
RECURSIVE SplitFrom(_, _)
SplitFrom(s, k) ==
    LET b == SkipSpaces(s, k)
        e == CHOOSE j \in b..(Len(s) + 1) :
                 /\ (j = Len(s) + 1 \/ IsSpace(Char(s, j)))
                 /\ \A q \in b..(j - 1) : ~IsSpace(Char(s, q))
    IN  IF b > Len(s) THEN << >>
        ELSE <<SubSeq(s, b, e - 1)>> \o SplitFrom(s, e)

Split(s) == SplitFrom(s, 1)

\* " ".join(parts)
RECURSIVE JoinBlank(_)
JoinBlank(parts) ==
    IF parts = << >> THEN ""
    ELSE IF Len(parts) = 1 THEN parts[1]
    ELSE parts[1] \o " " \o JoinBlank(Tail(parts))

\* int(s) for an unsigned decimal numeral; -1 stands for ValueError
DigitVal(c) == CHOOSE d \in 0..9 : Char("0123456789", d + 1) = c

RECURSIVE ToInt(_)
ToInt(s) ==
    IF s = "" \/ ~DigitsAt(s, 1, Len(s)) THEN -1
    ELSE IF Len(s) = 1 THEN DigitVal(s)
    ELSE 10 * ToInt(SubSeq(s, 1, Len(s) - 1)) + DigitVal(Char(s, Len(s)))

(* ------------------------------------------------------------------ *)
(* Patterns & parsing                                                 *)
(* ------------------------------------------------------------------ *)

WEEKDAYS == <<"Mon", "Tue", "Wed", "Thu", "Fri", "Sat", "Sun", "Monday",
              "Tuesday", "Wednesday", "Thursday", "Friday", "Saturday", "Sunday">>

MONTHS == <<"Jan", "Feb", "Mar", "Apr", "May", "Jun", "Jul", "Aug", "Sep",
            "Oct", "Nov", "Dec", "January", "February", "March", "April",
            "May", "June", "July", "August", "September", "October",
            "November", "December">>

NoMatch == [ok |-> FALSE]

\* TIME_RE at position p:  \d{1,2}:\d{2}\s*(?:AM|PM|am|pm)?
TIME_RE(s, p) ==
    LET hl == IF DigitsAt(s, p, 2) /\ Char(s, p + 2) = ":" THEN 2
              ELSE IF DigitsAt(s, p, 1) /\ Char(s, p + 1) = ":" THEN 1
              ELSE 0
        m0 == p + hl + 1
        q  == SkipSpaces(s, m0 + 2)
        e  == IF StartsWithCI(s, q, "AM") \/ StartsWithCI(s, q, "PM") THEN q + 2 ELSE q
    IN  IF hl = 0 \/ ~DigitsAt(s, m0, 2) THEN NoMatch
        ELSE [ok |-> TRUE, time |-> SubSeq(s, p, e - 1)]

\* an alternation: the first alternative that matches wins
FirstMatch(first, second) == IF first.ok THEN first ELSE second

\* the alternatives of a group, tried in order: the first that lets the
\* rest of the pattern match wins
FirstAlternative(try) ==
    LET hits == {a \in DOMAIN try : try[a].ok}
    IN  IF hits = {} THEN NoMatch
        ELSE try[CHOOSE a \in hits : \A b \in hits : a <= b]

YearGroup(s, y0, t) ==
    IF ~DigitsAt(s, y0, 4) \/ ~t.ok THEN NoMatch
    ELSE [ok |-> TRUE, year |-> SubSeq(s, y0, y0 + 3), time |-> t.time]

\* after the month name:  \s+(?P<year>\d{4})\s*,?\s*TIME_RE
YearAndTime(s, k) ==
    LET y0 == SkipSpaces(s, k)
        c0 == SkipSpaces(s, y0 + 4)
        c1 == IF Char(s, c0) = "," THEN c0 + 1 ELSE c0
    IN  IF ~IsSpace(Char(s, k)) THEN NoMatch
        ELSE YearGroup(s, y0, TIME_RE(s, SkipSpaces(s, c1)))

MonthGroup(month, rest) ==
    IF ~rest.ok THEN NoMatch
    ELSE [ok |-> TRUE, month |-> month, year |-> rest.year, time |-> rest.time]

\* (?P<month>MONTHS) at m0 and the rest
MonthAlternatives(s, m0) ==
    FirstAlternative(
        [a \in 1..Len(MONTHS) |->
            IF StartsWithCI(s, m0, MONTHS[a])
            THEN MonthGroup(SubSeq(s, m0, m0 + Len(MONTHS[a]) - 1),
                            YearAndTime(s, m0 + Len(MONTHS[a])))
            ELSE NoMatch])

\* after the day:  \s+(?P<month>MONTHS) and the rest
MonthAndRest(s, k) ==
    IF ~IsSpace(Char(s, k)) THEN NoMatch ELSE MonthAlternatives(s, SkipSpaces(s, k))

DayGroup(day, rest) ==
    IF ~rest.ok THEN NoMatch
    ELSE [ok |-> TRUE, day |-> day, month |-> rest.month, year |-> rest.year,
          time |-> rest.time]

\* (?P<day>\d{1,2}) greedy: two digits first, then one
DayAndRest(s, k) ==
    FirstMatch(IF DigitsAt(s, k, 2)
               THEN DayGroup(SubSeq(s, k, k + 1), MonthAndRest(s, k + 2)) ELSE NoMatch,
               IF DigitsAt(s, k, 1)
               THEN DayGroup(SubSeq(s, k, k), MonthAndRest(s, k + 1)) ELSE NoMatch)

WeekdayGroup(weekday, rest) ==
    IF ~rest.ok THEN NoMatch
    ELSE [ok |-> TRUE, weekday |-> weekday, day |-> rest.day, month |-> rest.month,
          year |-> rest.year, time |-> rest.time]

\* ROW_RE anchored at position i: the optional weekday group is tried
\* first (alternatives in order), then the pattern without it
ROW_RE_At(s, i) ==
    FirstMatch(
        FirstAlternative(
            [a \in 1..Len(WEEKDAYS) |->
                IF /\ StartsWithCI(s, i, WEEKDAYS[a])
                   /\ IsSpace(Char(s, i + Len(WEEKDAYS[a])))
                THEN WeekdayGroup(SubSeq(s, i, i + Len(WEEKDAYS[a]) - 1),
                                  DayAndRest(s, SkipSpaces(s, i + Len(WEEKDAYS[a]))))
                ELSE NoMatch]),
        WeekdayGroup("", DayAndRest(s, i)))

LeftmostMatch(s, starts) ==
    IF starts = {} THEN NoMatch
    ELSE ROW_RE_At(s, CHOOSE i \in starts : \A j \in starts : i <= j)

\* ROW_RE.search(text): the leftmost position with a match
ROW_RE_search(s) == LeftmostMatch(s, {i \in 1..Len(s) : ROW_RE_At(s, i).ok})

\* the groups of the match, as parse_row_text returns them
DateAndTime(m) ==
    LET weekday == Strip(m.weekday)
    IN  IF ~m.ok THEN <<"", "">>
        ELSE << Strip((IF weekday # "" THEN weekday \o " " ELSE "")
                      \o m.day \o " " \o m.month \o " " \o m.year),
                RemoveBlanks(Upper(m.time)) >>

parse_row_text(text) == DateAndTime(ROW_RE_search(text))

NEG_WORDS == <<"sold out", "unavailable", "returns only">>

NOT_ON_SALE_WORDS == <<"not on sale", "tickets not on sale">>

POS_HINTS == <<"book", "select", "choose seats", "reserve", "purchase",
               "available", "limited">>

AnyIn(words, low) == \E k \in 1..Len(words) : Contains(low, words[k])

\* variant: the booking hints are tested before the sold-out words
classify_status_HintsFirst(text, has_book) ==
    LET low == Lower(text)
    IN  IF AnyIn(NOT_ON_SALE_WORDS, low) THEN "Not on sale"
        ELSE IF Contains(low, "limited") THEN "Limited"
        ELSE IF has_book \/ AnyIn(POS_HINTS, low) THEN "Available"
        ELSE IF AnyIn(NEG_WORDS, low) THEN "Sold out"
        ELSE "Unknown"

classify_status(text, has_book) ==
    LET low == Lower(text)
    IN  IF AnyIn(NOT_ON_SALE_WORDS, low) THEN "Not on sale"
        ELSE IF Contains(low, "limited") THEN "Limited"
        ELSE IF AnyIn(NEG_WORDS, low) THEN "Sold out"
        ELSE IF has_book \/ AnyIn(POS_HINTS, low) THEN "Available"
        ELSE "Unknown"

(* ------------------------------------------------------------------ *)
(* Records, de-duplication and ordering                               *)
(* ------------------------------------------------------------------ *)

Perf(date, time, status, href, raw) ==
    [date |-> date, time |-> time, status |-> status, href |-> href, raw |-> raw]

\* variant: raw is part of the identity tuple
KeyWithRaw(p) == <<p.date, p.time, p.status, p.href, p.raw>>

\* the identity tuple built in dedup
Key(p) == <<p.date, p.time, p.status, p.href>>

\* variant: the loop stops filtering after the first duplicate it drops
RECURSIVE dedupFromOnce(_, _, _)
dedupFromOnce(items, out, seen) ==
    IF items = << >> THEN out
    ELSE IF Key(Head(items)) \notin seen
    THEN dedupFromOnce(Tail(items), Append(out, Head(items)), seen \cup {Key(Head(items))})
    ELSE out \o Tail(items)

RECURSIVE dedupFrom(_, _, _)
dedupFrom(items, out, seen) ==
    IF items = << >> THEN out
    ELSE IF Key(Head(items)) \notin seen
    THEN dedupFrom(Tail(items), Append(out, Head(items)), seen \cup {Key(Head(items))})
    ELSE dedupFrom(Tail(items), out, seen)

dedup(items) == dedupFrom(items, << >>, {})

MONTH_NUM ==
    << <<"jan", 1>>, <<"january", 1>>, <<"feb", 2>>, <<"february", 2>>,
       <<"mar", 3>>, <<"march", 3>>, <<"apr", 4>>, <<"april", 4>>,
       <<"may", 5>>, <<"jun", 6>>, <<"june", 6>>, <<"jul", 7>>, <<"july", 7>>,
       <<"aug", 8>>, <<"august", 8>>, <<"sep", 9>>, <<"sept", 9>>,
       <<"september", 9>>, <<"oct", 10>>, <<"october", 10>>,
       <<"nov", 11>>, <<"november", 11>>, <<"dec", 12>>, <<"december", 12>> >>

\* MONTH_NUM[name]; 0 stands for KeyError
MonthNum(name) ==
    IF \E k \in 1..Len(MONTH_NUM) : MONTH_NUM[k][1] = name
    THEN MONTH_NUM[CHOOSE k \in 1..Len(MONTH_NUM) : MONTH_NUM[k][1] = name][2]
    ELSE 0

SentinelKey == <<9999, 12, 31, 23, 59>>

\* variant: PM always adds 12 and AM never resets 12
TimeOfDayNaive(t) ==
    LET hl == IF DigitsAt(t, 1, 2) /\ Char(t, 3) = ":" THEN 2
              ELSE IF DigitsAt(t, 1, 1) /\ Char(t, 2) = ":" THEN 1
              ELSE 0
        hour   == ToInt(SubSeq(t, 1, hl))
        minute == ToInt(SubSeq(t, hl + 2, hl + 3))
        h24 == IF StartsWithCI(t, hl + 4, "PM") THEN hour + 12 ELSE hour
    IN  IF hl = 0 \/ ~DigitsAt(t, hl + 2, 2) THEN <<-1, -1>> ELSE <<h24, minute>>

\* re.match(r"(\d{1,2}):(\d{2})(AM|PM)?", t, re.I) and the 24-hour
\* conversion; hour -1 stands for "no match"
TimeOfDay(t) ==
    LET hl == IF DigitsAt(t, 1, 2) /\ Char(t, 3) = ":" THEN 2
              ELSE IF DigitsAt(t, 1, 1) /\ Char(t, 2) = ":" THEN 1
              ELSE 0
        hour   == ToInt(SubSeq(t, 1, hl))
        minute == ToInt(SubSeq(t, hl + 2, hl + 3))
        ap == IF StartsWithCI(t, hl + 4, "AM") THEN "AM"
              ELSE IF StartsWithCI(t, hl + 4, "PM") THEN "PM"
              ELSE ""
        h24 == IF ap = "PM" /\ hour # 12 THEN hour + 12
               ELSE IF ap = "AM" /\ hour = 12 THEN 0
               ELSE hour
    IN  IF hl = 0 \/ ~DigitsAt(t, hl + 2, 2) THEN <<-1, -1>> ELSE <<h24, minute>>

perf_sort_key(p) ==
    LET parts == Split(p.date)
        n     == Len(parts)
        day   == IF n = 4 THEN parts[2] ELSE parts[1]
        month == IF n = 4 THEN parts[3] ELSE parts[2]
        year  == IF n = 4 THEN parts[4] ELSE parts[3]
        t     == TimeOfDay(RemoveBlanks(p.time))
    IN  IF n # 3 /\ n # 4 THEN SentinelKey
        ELSE IF ToInt(day) < 0 \/ MonthNum(Lower(month)) = 0 \/ ToInt(year) < 0
        THEN SentinelKey
        ELSE IF t[1] < 0 THEN SentinelKey
        ELSE <<ToInt(year), MonthNum(Lower(month)), ToInt(day), t[1], t[2]>>

\* tuple comparison a < b
RECURSIVE TupleLess(_, _)
TupleLess(a, b) ==
    IF a = << >> \/ b = << >> THEN a = << >> /\ b # << >>
    ELSE IF a[1] # b[1] THEN a[1] < b[1]
    ELSE TupleLess(Tail(a), Tail(b))

\* sorted(perfs, key=perf_sort_key) computes the key of every item once
\* and orders the <<key, item>> pairs: stable, ascending
RECURSIVE Decorate(_, _)
Decorate(items, acc) ==
    IF items = << >> THEN acc
    ELSE Decorate(Tail(items), Append(acc, <<perf_sort_key(Head(items)), Head(items)>>))

RECURSIVE Undecorate(_, _)
Undecorate(pairs, acc) ==
    IF pairs = << >> THEN acc
    ELSE Undecorate(Tail(pairs), Append(acc, Head(pairs)[2]))

RECURSIVE InsertSorted(_, _)
InsertSorted(sorted, kp) ==
    IF sorted = << >> THEN <<kp>>
    ELSE IF TupleLess(kp[1], Head(sorted)[1])
    THEN <<kp>> \o sorted
    ELSE <<Head(sorted)>> \o InsertSorted(Tail(sorted), kp)

RECURSIVE SortedFrom(_, _)
SortedFrom(pairs, acc) ==
    IF pairs = << >> THEN acc
    ELSE SortedFrom(Tail(pairs), InsertSorted(acc, Head(pairs)))

\* variant: the list is left in the order given
sorted_by_key_Unsorted(items) == items

sorted_by_key(items) == Undecorate(SortedFrom(Decorate(items, << >>), << >>), << >>)

(* ------------------------------------------------------------------ *)
(* Extraction                                                         *)
(* ------------------------------------------------------------------ *)

\* end of the run of blanks that starts at k
RECURSIVE SkipBlanks(_, _)
SkipBlanks(s, k) == IF Char(s, k) = " " THEN SkipBlanks(s, k + 1) ELSE k

\* a match of  [\n\r]+| {2,}|\t|\u00a0  starts at k
DelimiterAt(s, k) ==
    \/ Char(s, k) \in {"\n", "\r", "\t"}
    \/ Char(s, k) = " " /\ Char(s, k + 1) = " "

\* the non-empty stripped pieces of  re.split(r"[\n\r]+| {2,}|\t|\u00a0", txt)
\* from position k on
RECURSIVE LinesFrom(_, _)
LinesFrom(s, k) ==
    LET d     == CHOOSE j \in k..(Len(s) + 1) :
                     /\ (j = Len(s) + 1 \/ DelimiterAt(s, j))
                     /\ \A q \in k..(j - 1) : ~DelimiterAt(s, q)
        cur   == Strip(SubSeq(s, k, d - 1))
        piece == IF cur = "" THEN << >> ELSE <<cur>>
    IN  IF k > Len(s) THEN << >>
        ELSE IF d > Len(s) THEN piece
        ELSE IF Char(s, d) = " " THEN piece \o LinesFrom(s, SkipBlanks(s, d))
        ELSE piece \o LinesFrom(s, d + 1)

SplitLines(txt) == LinesFrom(txt, 1)

ROW_SELECTORS ==
    <<"li.performance, li.performance-item, li.performanceListItem",
      ".performance-row, .performance, .performanceItem, .PerfRow",
      "table tr",
      "ul li, ol li">>

MaxRowsPerSelector == 300

MaxLinksPerSelector == 10

MaxBlocks == 8

SiteOrigin == "https://ticketing.almeida.co.uk"

\* the hint words of the link test inside extract_from_frame
LINK_HINTS == <<"book", "select", "purchase", "choose", "tickets">>

Min(a, b) == IF a <= b THEN a ELSE b

\* A collaborator call is named by its kind and its place (selector, row,
\* link selector, link); `failing' names the one call that raises.
NoFault == [call |-> "none", at |-> << >>]

Raises(failing, call, at) == failing.call = call /\ failing.at = at

\* frame.locator(sel): the elements of the region the selector matches
Locate(region, k) == SelectSeq(region.elems, LAMBDA e : k \in e.sels)

Raised == [raised |-> TRUE, link |-> ""]

\* variant: the scan of a link selector stops at the first hint control
\* even when it has no href
RECURSIVE ScanLinksNoHrefTest(_, _, _, _)
ScanLinksNoHrefTest(links, j, failing, at) ==
    LET t    == Lower(links[j].text)
        href == links[j].href
    IN  IF j > Min(Len(links), MaxLinksPerSelector) THEN [raised |-> FALSE, link |-> ""]
        ELSE IF Raises(failing, "link.inner_text", at \o <<j>>) THEN Raised
        ELSE IF ~AnyIn(LINK_HINTS, t) THEN ScanLinksNoHrefTest(links, j + 1, failing, at)
        ELSE IF Raises(failing, "link.get_attribute", at \o <<j>>) THEN Raised
        ELSE [raised |-> FALSE,
              link |-> IF Char(href, 1) = "/" THEN SiteOrigin \o href ELSE href]

\* for j in range(min(lcount, 10)): the scan of one link selector
RECURSIVE ScanLinks(_, _, _, _)
ScanLinks(links, j, failing, at) ==
    LET t    == Lower(links[j].text)
        href == links[j].href
    IN  IF j > Min(Len(links), MaxLinksPerSelector) THEN [raised |-> FALSE, link |-> ""]
        ELSE IF Raises(failing, "link.inner_text", at \o <<j>>) THEN Raised
        ELSE IF ~AnyIn(LINK_HINTS, t) THEN ScanLinks(links, j + 1, failing, at)
        ELSE IF Raises(failing, "link.get_attribute", at \o <<j>>) THEN Raised
        ELSE IF href = "" THEN ScanLinks(links, j + 1, failing, at)
        ELSE [raised |-> FALSE,
              link |-> IF Char(href, 1) = "/" THEN SiteOrigin \o href ELSE href]

\* for lsel in ("a", "button"): anchors first, buttons only if no link yet
BookingLink(row, failing, at) ==
    LET a == ScanLinks(row.anchors, 1, failing, at \o <<1>>)
        b == ScanLinks(row.buttons, 1, failing, at \o <<2>>)
    IN  IF Raises(failing, "links.count", at \o <<1>>) THEN Raised
        ELSE IF a.raised \/ a.link # "" THEN a
        ELSE IF Raises(failing, "links.count", at \o <<2>>) THEN Raised
        ELSE b

\* variant: a row without a date/time match is kept
RowRecordUnfiltered(row, failing, at) ==
    LET txt  == JoinBlank(Split(row.text))
        l    == BookingLink(row, failing, at)
        dt   == parse_row_text(txt)
    IN  IF Raises(failing, "row.inner_text", at) THEN << >>
        ELSE IF txt = "" THEN << >>
        ELSE IF l.raised THEN << >>
        ELSE <<Perf(dt[1], dt[2], classify_status(txt, l.link # ""), l.link, txt)>>

\* the row after its text, link and date/time were read: no record or one
RowPerf(txt, l, dt) ==
    IF txt = "" THEN << >>
    ELSE IF l.raised THEN << >>
    ELSE IF dt[1] = "" /\ dt[2] = "" THEN << >>
    ELSE <<Perf(dt[1], dt[2], classify_status(txt, l.link # ""), l.link, txt)>>

\* the body of the try block for one row: no record or one record
RowRecord(row, failing, at) ==
    IF Raises(failing, "row.inner_text", at) THEN << >>
    ELSE RowPerf(JoinBlank(Split(row.text)), BookingLink(row, failing, at),
                 parse_row_text(JoinBlank(Split(row.text))))

RECURSIVE RowsFrom(_, _, _, _)
RowsFrom(rows, i, failing, k) ==
    IF i > Min(Len(rows), MaxRowsPerSelector) THEN << >>
    ELSE RowRecord(rows[i], failing, <<k, i>>) \o RowsFrom(rows, i + 1, failing, k)

\* Pass 1: for sel in ROW_SELECTORS; rows.count() is outside the try block
RECURSIVE Pass1From(_, _, _)
Pass1From(region, k, failing) ==
    LET rest == Pass1From(region, k + 1, failing)
    IN  IF k > Len(ROW_SELECTORS) THEN [raised |-> FALSE, perfs |-> << >>]
        ELSE IF Raises(failing, "rows.count", <<k>>) \/ rest.raised
        THEN [raised |-> TRUE, perfs |-> << >>]
        ELSE [raised |-> FALSE,
              perfs |-> RowsFrom(Locate(region, k), 1, failing, k) \o rest.perfs]

Pass1(region, failing) == Pass1From(region, 1, failing)

\* one line of a block: no record or one record
LinePerf(line, dt) ==
    IF dt[1] = "" /\ dt[2] = "" THEN << >>
    ELSE <<Perf(dt[1], dt[2], classify_status(line, FALSE), "", line)>>

RECURSIVE LineRecords(_)
LineRecords(lines) ==
    IF lines = << >> THEN << >>
    ELSE LinePerf(Head(lines), parse_row_text(Head(lines))) \o LineRecords(Tail(lines))

RECURSIVE BlocksFrom(_, _, _)
BlocksFrom(blocks, i, failing) ==
    IF i > Min(Len(blocks), MaxBlocks) THEN << >>
    ELSE IF Raises(failing, "block.inner_text", <<i>>) THEN BlocksFrom(blocks, i + 1, failing)
    ELSE LineRecords(SplitLines(blocks[i])) \o BlocksFrom(blocks, i + 1, failing)

\* Pass 2: small_blocks.count() is outside the try block
Pass2(region, failing) ==
    IF Raises(failing, "blocks.count", << >>) THEN [raised |-> TRUE, perfs |-> << >>]
    ELSE [raised |-> FALSE, perfs |-> BlocksFrom(region.blocks, 1, failing)]

\* variant: Pass 2 runs whatever Pass 1 collected
extract_from_frame_BothPasses(region, failing) ==
    LET p1 == Pass1(region, failing)
        p2 == Pass2(region, failing)
    IN  IF p1.raised
        THEN [raised |-> TRUE, pass1 |-> << >>, pass2 |-> FALSE, out |-> << >>]
        ELSE [raised |-> p2.raised, pass1 |-> p1.perfs, pass2 |-> TRUE,
              out |-> IF p2.raised THEN << >> ELSE dedup(p1.perfs \o p2.perfs)]

\* the outcome of one call: whether it raised, what Pass 1 collected,
\* whether control reached Pass 2, and the returned list
Outcome(p1, p2) ==
    IF p1.raised
    THEN [raised |-> TRUE, pass1 |-> << >>, pass2 |-> FALSE, out |-> << >>]
    ELSE IF p1.perfs # << >>
    THEN [raised |-> FALSE, pass1 |-> p1.perfs, pass2 |-> FALSE, out |-> dedup(p1.perfs)]
    ELSE [raised |-> p2.raised, pass1 |-> << >>, pass2 |-> TRUE,
          out |-> IF p2.raised THEN << >> ELSE dedup(p2.perfs)]

extract_from_frame(region, failing) == Outcome(Pass1(region, failing), Pass2(region, failing))

(* ------------------------------------------------------------------ *)
(* The page: what the browser hands to fetch_all                      *)
(* ------------------------------------------------------------------ *)

Link(text, href) == [text |-> text, href |-> href]

Element(sels, text, anchors, buttons) ==
    [sels |-> sels, text |-> text, anchors |-> anchors, buttons |-> buttons]

\* li.performance rows match selectors 1, 2 and 4; table rows selector 3;
\* plain list items selector 4
RowBook ==
    Element({1, 2, 4}, "Sat 15 November 2025,\n7:30pm  Book now",
            <<Link("Book now", "/book/101")>>, << >>)

RowSoldOut ==
    Element({1, 2, 4}, "Fri 14 Nov 2025 7:30PM Sold out - Book returns",
            <<Link("Book returns", "https://tickets.example/returns")>>, << >>)

RowClosed ==
    Element({4}, "Box office closed for refurbishment",
            <<Link("Tickets", "/tickets")>>, << >>)

RowReserve ==
    Element({3}, "3 November 2025 19:00",
            <<Link("Reserve", "/reserve/7")>>, <<Link("Choose seats", "")>>)

RowTickets ==
    Element({3}, "16 Nov 2025 2:30 pm",
            <<Link("More info", "/info"), Link("TICKETS", "/t/16")>>, << >>)

RowTwoLinks ==
    Element({3}, "Mon 17 Nov 2025 7:30pm",
            <<Link("Book", ""), Link("Select seats", "/seats/17")>>,
            <<Link("Purchase", "/buy/17")>>)

RowButton ==
    Element({2}, "Tue 18 Nov 2025 7:30pm limited view",
            <<Link("Details", "/details")>>, <<Link("Choose", "/choose/18")>>)

MoreInfo == Link("More info", "/info")

RowManyLinks ==
    Element({3}, "Wed 19 Nov 2025 7:30pm",
            <<MoreInfo, MoreInfo, MoreInfo, MoreInfo, MoreInfo, MoreInfo,
              MoreInfo, MoreInfo, MoreInfo, MoreInfo, Link("Book now", "/book/19")>>,
            << >>)

RowBlank == Element({4}, "  \n ", << >>, << >>)

ElemLists ==
    { << >>,
      <<RowBook, RowSoldOut>>,
      <<RowClosed, RowBlank>>,
      <<RowReserve, RowTickets>>,
      <<RowTwoLinks, RowButton, RowManyLinks, RowClosed>> }

BlockLists ==
    { << >>,
      <<"Thu 20 Feb 2025 7:45pm Sold Out\nBox office closed",
        "15 Nov 2025 19:30  Limited availability\tSat 15 November 2025, 7:30pm">> }

Regions == {[elems |-> e, blocks |-> b] : e \in ElemLists, b \in BlockLists}

Fault(call, at) == [call |-> call, at |-> at]

Faults ==
    { NoFault,
      Fault("rows.count", <<1>>),
      Fault("rows.count", <<3>>),
      Fault("row.inner_text", <<1, 1>>),
      Fault("row.inner_text", <<3, 2>>),
      Fault("links.count", <<3, 1, 2>>),
      Fault("link.inner_text", <<1, 2, 1, 1>>),
      Fault("link.get_attribute", <<3, 1, 1, 2>>),
      Fault("blocks.count", << >>),
      Fault("block.inner_text", <<1>>) }

\* the calls of extract_from_frame the model can make
Extractions ==
    {[region |-> r, fault |-> f, run |-> extract_from_frame(r, f)] :
        r \in Regions, f \in Faults}

(* ------------------------------------------------------------------ *)
(* fetch_all and main                                                 *)
(* ------------------------------------------------------------------ *)

MaxFrames == 2

NoFrame == [elems |-> << >>, blocks |-> << >>]

NoRun == [raised |-> FALSE, pass1 |-> << >>, pass2 |-> FALSE, out |-> << >>]

VARIABLES
    pc,        \* "frames": in the loop of fetch_all; "main": fetch_all returned; "done"
    nframes,   \* frames of page.frames already processed
    frame,     \* the frame of the last iteration
    fault,     \* the collaborator call that raised in the last iteration
    run,       \* the outcome of extract_from_frame in the last iteration
    perfs,     \* the accumulator of fetch_all
    result,    \* the list fetch_all returned
    table,     \* the rows of render_text_table, in print order
    json,      \* the "performances" list of the JSON output
    summary,   \* the rows write_summary appended
    arg,       \* the argument of a function called on its own
    ret,       \* what the last call returned
    prev,      \* what the call before it returned
    calls      \* the number of calls made

vars == <<pc, nframes, frame, fault, run, perfs, result, table, json, summary,
          arg, ret, prev, calls>>

pipelineVars == <<pc, nframes, frame, fault, run, perfs, result, table, json, summary>>

callVars == <<arg, ret, prev, calls>>

NoCall == /\ arg = << >>
          /\ ret = << >>
          /\ prev = << >>
          /\ calls = 0

Init ==
    /\ pc = "frames"
    /\ nframes = 0
    /\ frame = NoFrame
    /\ fault = NoFault
    /\ run = NoRun
    /\ perfs = << >>
    /\ result = << >>
    /\ table = << >>
    /\ json = << >>
    /\ summary = << >>
    /\ NoCall

\* one iteration of  for f in page.frames  (the try/except included)
FetchFrame ==
    /\ pc = "frames"
    /\ nframes < MaxFrames
    /\ \E e \in Extractions :
          /\ frame' = e.region
          /\ fault' = e.fault
          /\ run' = e.run
          /\ perfs' = IF e.run.raised THEN perfs ELSE perfs \o e.run.out
    /\ nframes' = nframes + 1
    /\ UNCHANGED <<pc, result, table, json, summary, callVars>>

\* page.frames is exhausted: browser.close(); return dedup(perfs)
FetchReturn ==
    /\ pc = "frames"
    /\ nframes >= 1
    /\ result' = dedup(perfs)
    /\ pc' = "main"
    /\ UNCHANGED <<nframes, frame, fault, run, perfs, table, json, summary, callVars>>

\* main after fetch_all: the text table, the JSON output, the run summary
\* (written only when GITHUB_STEP_SUMMARY is set)
Main ==
    /\ pc = "main"
    /\ LET perfs_sorted == sorted_by_key(result)
       IN  /\ table' = perfs_sorted
           /\ \E path \in BOOLEAN :
                 summary' = IF path THEN perfs_sorted ELSE << >>
    /\ json' = result
    /\ pc' = "done"
    /\ UNCHANGED <<nframes, frame, fault, run, perfs, result, callVars>>

Next == FetchFrame \/ FetchReturn \/ Main

Spec == Init /\ [][Next]_vars

(* ------------------------------------------------------------------ *)
(* The pure functions called on their own                             *)
(* ------------------------------------------------------------------ *)

\* the pipeline is not running
Idle(fn) ==
    /\ pc = fn
    /\ nframes = 0
    /\ frame = NoFrame
    /\ fault = NoFault
    /\ run = NoRun
    /\ perfs = << >>
    /\ result = << >>
    /\ table = << >>
    /\ json = << >>
    /\ summary = << >>

MaxFrags == 2

Frags ==
    {"Sold Out ", "book ", "LIMITED ", "Not On Sale ", "Unavailable ",
     "returns only ", "Reserve ", "15 Nov 2025 ", "Tickets ", "sold", " out"}

RECURSIVE TextsOf(_)
TextsOf(n) ==
    IF n = 0 THEN {""}
    ELSE TextsOf(n - 1) \cup {t \o f : t \in TextsOf(n - 1), f \in Frags}

Texts == TextsOf(MaxFrags)

InitClassify ==
    /\ Idle("classify")
    /\ arg \in {<<t, b>> : t \in Texts, b \in BOOLEAN}
    /\ ret = << >>
    /\ prev = << >>
    /\ calls = 0

CallClassify ==
    /\ pc = "classify"
    /\ calls = 0
    /\ ret' = classify_status(arg[1], arg[2])
    /\ prev' = ret
    /\ calls' = 1
    /\ UNCHANGED <<arg, pipelineVars>>

NextClassify == CallClassify

SpecClassify == InitClassify /\ [][NextClassify]_vars

MaxLen == 3

RECURSIVE ListsOf(_, _)
ListsOf(S, n) ==
    IF n = 0 THEN {<< >>}
    ELSE ListsOf(S, n - 1) \cup {Append(l, e) : l \in ListsOf(S, n - 1), e \in S}

\* three identity tuples, each with two raw texts
DedupRecs ==
    {Perf("15 Nov 2025", "19:30", st, hr, rw) :
        st \in {"Available"}, hr \in {"", "/book/1"}, rw \in {"row", "line"}}
    \cup {Perf("15 Nov 2025", "19:30", "Sold out", "", rw) : rw \in {"row", "line"}}

InitDedup ==
    /\ Idle("dedup")
    /\ arg \in ListsOf(DedupRecs, MaxLen)
    /\ ret = << >>
    /\ prev = << >>
    /\ calls = 0

\* dedup(arg), then dedup of what dedup returned
CallDedup ==
    /\ pc = "dedup"
    /\ calls < 2
    /\ ret' = dedup(IF calls = 0 THEN arg ELSE ret)
    /\ prev' = ret
    /\ calls' = calls + 1
    /\ UNCHANGED <<arg, pipelineVars>>

NextDedup == CallDedup

SpecDedup == InitDedup /\ [][NextDedup]_vars

MaxSortLen == 2

SortRecs ==
    {Perf(dt[1], dt[2], "Unknown", "", "") : dt \in
        { <<"15 November 2025", "7:30PM">>, <<"3 November 2025", "19:00">>,
          <<"15 November 2025", "11:00AM">>, <<"Sat 15 NOV 2025", "12:00AM">>,
          <<"Sat 15 NOV 2025", "12:30PM">>, <<"Sunday 16 nov 2025", "2:30 pm">>,
          <<"1 sept 2026", "9:05am">>, <<"31 December 9999", "23:59">>,
          <<"TBC", "7:30PM">>, <<"15 Smarch 2025", "19:00">>,
          <<"15 November 2025", "7.30">>, <<"1 2 November 2025 x", "19:00">> }}

InitSort ==
    /\ Idle("sort")
    /\ arg \in ListsOf(SortRecs, MaxSortLen)
    /\ ret = << >>
    /\ prev = << >>
    /\ calls = 0

\* sorted(arg, key=perf_sort_key), then the same sort of its result
CallSort ==
    /\ pc = "sort"
    /\ calls < 2
    /\ ret' = sorted_by_key(IF calls = 0 THEN arg ELSE ret)
    /\ prev' = ret
    /\ calls' = calls + 1
    /\ UNCHANGED <<arg, pipelineVars>>

NextSort == CallSort

SpecSort == InitSort /\ [][NextSort]_vars

(* ------------------------------------------------------------------ *)
(* Properties                                                         *)
(* ------------------------------------------------------------------ *)

IdentityTuple(p) == <<p.date, p.time, p.status, p.href>>

Tuples(items) == {IdentityTuple(items[i]) : i \in 1..Len(items)}

NoDuplicates(items) ==
    \A i, j \in 1..Len(items) :
        IdentityTuple(items[i]) = IdentityTuple(items[j]) => i = j

FirstOccurrences(items) ==
    {i \in 1..Len(items) :
        \A j \in 1..(i - 1) : IdentityTuple(items[j]) # IdentityTuple(items[i])}

\* the k-th smallest member of a set of numbers
Kth(I, k) == CHOOSE i \in I : Cardinality({j \in I : j <= i}) = k

\* out is items restricted to the first occurrence of each identity tuple
IsFirstOccurrenceList(out, items) ==
    /\ Len(out) = Cardinality(FirstOccurrences(items))
    /\ \A k \in 1..Len(out) : out[k] = items[Kth(FirstOccurrences(items), k)]

ContainsCI(text, w) == \E i \in 1..Len(text) : StartsWithCI(text, i, w)

AnyCI(text, words) == \E w \in words : ContainsCI(text, w)

\* the rule table of the status classifier, first match wins
RuleStatus(text, hasBookingLink) ==
    IF ContainsCI(text, "not on sale") THEN "Not on sale"
    ELSE IF ContainsCI(text, "limited") THEN "Limited"
    ELSE IF AnyCI(text, {"sold out", "unavailable", "returns only"}) THEN "Sold out"
    ELSE IF \/ hasBookingLink
            \/ AnyCI(text, {"book", "select", "choose seats", "reserve",
                            "purchase", "available"})
    THEN "Available"
    ELSE "Unknown"

\* C1: classify_status returns the status of the first matching rule in the
\* order Not on sale, Limited, Sold out, Available, Unknown, matching without
\* regard to case; a text with both "sold out" and "book" and a booking link
\* is never Available (it is Sold out unless an earlier rule matches).
C1_ClassifyFirstRule ==
    (pc = "classify" /\ calls = 1) =>
        /\ ret = RuleStatus(arg[1], arg[2])
        /\ (ContainsCI(arg[1], "sold out") /\ ContainsCI(arg[1], "book") /\ arg[2])
               => /\ ret # "Available"
                  /\ (~ContainsCI(arg[1], "not on sale") /\ ~ContainsCI(arg[1], "limited"))
                         => ret = "Sold out"

C1_Witness ==
    /\ pc = "classify"
    /\ calls = 1
    /\ arg = <<"Sold Out book ", TRUE>>
    /\ ret = "Sold out"

\* C5: dedup(xs) is xs restricted to the first occurrence of each identity
\* tuple (date, time, status, href): no tuple twice, every tuple of xs kept,
\* later duplicates dropped whatever their raw text, first-seen order kept.
C5_DedupFirstOccurrences ==
    (pc = "dedup" /\ calls = 1) =>
        /\ IsFirstOccurrenceList(ret, arg)
        /\ NoDuplicates(ret)
        /\ Tuples(ret) = Tuples(arg)

C5_Witness ==
    /\ pc = "dedup"
    /\ calls = 1
    /\ Len(arg) = 3
    /\ Len(ret) = 2
    /\ IdentityTuple(arg[1]) = IdentityTuple(arg[3])
    /\ arg[1].raw # arg[3].raw
    /\ ret = <<arg[1], arg[2]>>

\* C6: dedup is idempotent, dedup(dedup(xs)) = dedup(xs), and it leaves a
\* list without duplicates as it is.
C6_DedupIdempotent ==
    /\ (pc = "dedup" /\ calls = 2) => ret = prev
    /\ (pc = "dedup" /\ calls = 1 /\ NoDuplicates(arg)) => ret = arg

C6_Witness ==
    /\ pc = "dedup"
    /\ calls = 2
    /\ Len(arg) = 3
    /\ Len(ret) = 1

\* the calendar tuples of the well-formed records of SortRecs, worked out
\* by hand: (year, month, day, 24-hour hour, minute)
CalendarKey ==
    <<"15 November 2025", "7:30PM">> :> <<2025, 11, 15, 19, 30>> @@
    <<"3 November 2025", "19:00">> :> <<2025, 11, 3, 19, 0>> @@
    <<"15 November 2025", "11:00AM">> :> <<2025, 11, 15, 11, 0>> @@
    <<"Sat 15 NOV 2025", "12:00AM">> :> <<2025, 11, 15, 0, 0>> @@
    <<"Sat 15 NOV 2025", "12:30PM">> :> <<2025, 11, 15, 12, 30>> @@
    <<"Sunday 16 nov 2025", "2:30 pm">> :> <<2025, 11, 16, 14, 30>> @@
    <<"1 sept 2026", "9:05am">> :> <<2026, 9, 1, 9, 5>> @@
    <<"31 December 9999", "23:59">> :> <<9999, 12, 31, 23, 59>>

WellFormed(p) == <<p.date, p.time>> \in DOMAIN CalendarKey

Unparsable(p) == ~WellFormed(p)

\* the day on a calendar with 12 months of 31 days, and the minute of the day
DayNumber(p) ==
    LET k == CalendarKey[<<p.date, p.time>>]
    IN  (k[1] * 12 + (k[2] - 1)) * 31 + (k[3] - 1)

MinuteOfDay(p) ==
    LET k == CalendarKey[<<p.date, p.time>>]
    IN  k[4] * 60 + k[5]

NotLater(p, q) ==
    \/ DayNumber(p) < DayNumber(q)
    \/ DayNumber(p) = DayNumber(q) /\ MinuteOfDay(p) <= MinuteOfDay(q)

\* C7: sorting by perf_sort_key never raises, puts every record with an
\* unparsable date or time after all well-formed records, gives the same
\* order when repeated, and keeps the unparsable records in their order.
C7_UnparsableSortLast ==
    (pc = "sort" /\ calls >= 1) =>
        /\ Len(ret) = Len(arg)
        /\ \A i, j \in 1..Len(ret) :
               (Unparsable(ret[i]) /\ WellFormed(ret[j])) => j < i
        /\ SelectSeq(ret, Unparsable) = SelectSeq(arg, Unparsable)
        /\ calls = 2 => ret = prev

\* C8: for a well-formed date and time perf_sort_key is (year, month number,
\* day, 24-hour hour, minute), 12 AM being hour 0, 12 PM hour 12 and N PM
\* hour N+12, so the sorted list is in chronological order.
C8_KeyIsCalendarTuple ==
    (pc = "sort" /\ calls >= 1) =>
        /\ \A i \in 1..Len(arg) :
               WellFormed(arg[i]) =>
                   perf_sort_key(arg[i]) = CalendarKey[<<arg[i].date, arg[i].time>>]
        /\ \A i, j \in 1..Len(ret) :
               (i < j /\ WellFormed(ret[i]) /\ WellFormed(ret[j]))
                   => NotLater(ret[i], ret[j])

C8_Witness ==
    /\ pc = "sort"
    /\ calls = 1
    /\ Len(arg) = 2
    /\ <<arg[1].date, arg[1].time>> = <<"Sat 15 NOV 2025", "12:30PM">>
    /\ <<arg[2].date, arg[2].time>> = <<"15 November 2025", "11:00AM">>
    /\ ret = <<arg[2], arg[1]>>

\* the rows and block texts of the model's page, and what the code reads
\* from them
AllRows == UNION {{l[i] : i \in 1..Len(l)} : l \in ElemLists}

AllBlocks == UNION {{l[i] : i \in 1..Len(l)} : l \in BlockLists}

RowTexts == {<<e, JoinBlank(Split(e.text))>> : e \in AllRows}

RowText(e) == (CHOOSE rt \in RowTexts : rt[1] = e)[2]

BlockLines == {<<b, SplitLines(b)>> : b \in AllBlocks}

LinesOf(b) ==
    LET ls == (CHOOSE bl \in BlockLines : bl[1] = b)[2]
    IN  {ls[i] : i \in 1..Len(ls)}

FrameLines(region) == UNION {LinesOf(region.blocks[i]) : i \in 1..Len(region.blocks)}

AllLines == UNION {LinesOf(b) : b \in AllBlocks}

Parses == {<<t, parse_row_text(t)>> : t \in {rt[2] : rt \in RowTexts} \cup AllLines}

MatchingTexts == {pt[1] : pt \in {qt \in Parses : qt[2] # <<"", "">>}}

Raws(items) == {items[i].raw : i \in 1..Len(items)}

\* C2: Pass 2 runs if and only if Pass 1 collected no record: with a
\* Pass 1 record the result is the de-duplicated Pass 1 list and holds no
\* line of Pass 2; without one, Pass 2 runs and its result holds exactly
\* the lines with a date/time match.
C2_Pass2OnlyWhenPass1Empty ==
    /\ run.pass2 => run.pass1 = << >>
    /\ (nframes >= 1 /\ run.pass1 = << >> /\ ~(run.raised /\ ~run.pass2)) => run.pass2
    /\ run.pass1 # << >> =>
           /\ IsFirstOccurrenceList(run.out, run.pass1)
           /\ Raws(run.out) \cap AllLines = {}
    /\ (run.pass2 /\ ~run.raised) =>
           /\ Raws(run.out) \subseteq FrameLines(frame) \cap MatchingTexts
           /\ fault.call # "block.inner_text"
                  => Raws(run.out) = FrameLines(frame) \cap MatchingTexts

C2_Witness ==
    /\ nframes >= 1
    /\ frame.elems = <<RowClosed, RowBlank>>
    /\ run.pass2
    /\ ~run.raised
    /\ Len(run.out) = 3
    /\ "Box office closed" \in FrameLines(frame) \ Raws(run.out)

\* the outcome of extract_from_frame on the same region when no call raises
CleanRun(region) ==
    (CHOOSE e \in Extractions : e.region = region /\ e.fault = NoFault).run

\* the texts read through the element the failing call belongs to
FailingTexts(region, failing) ==
    LET rows == Locate(region, failing.at[1])
    IN  CASE failing.call \in {"row.inner_text", "links.count", "link.inner_text",
                              "link.get_attribute"} ->
                 IF failing.at[2] <= Len(rows) THEN {RowText(rows[failing.at[2]])} ELSE {}
          [] failing.call = "block.inner_text" ->
                 IF failing.at[1] <= Len(region.blocks)
                 THEN LinesOf(region.blocks[failing.at[1]]) ELSE {}
          [] failing.call = "rows.count" ->
                 {RowText(region.elems[i]) : i \in
                     {j \in 1..Len(region.elems) : region.elems[j].sels = {failing.at[1]}}}
          [] failing.call = "blocks.count" -> FrameLines(region)
          [] OTHER -> {}

\* the records of the region that do not come from the failing element
OtherRecords(region, failing) ==
    LET out == CleanRun(region).out
    IN  {out[i] : i \in {j \in 1..Len(out) : out[j].raw \notin FailingTexts(region, failing)}}

\* C3: a collaborator call that raises (selector count, element text, link
\* text, link attribute, container text) makes the code skip only the
\* element it belongs to: the records of the other elements of the region,
\* and those of the other regions, are still in the result of fetch_all.
C3_FaultSkipsOnlyItsElement ==
    /\ nframes >= 1 =>
           \A p \in OtherRecords(frame, fault) : IdentityTuple(p) \in Tuples(perfs)
    /\ pc \in {"main", "done"} => Tuples(result) = Tuples(perfs)

Matched(p) ==
    /\ p.date # "" \/ p.time # ""
    /\ <<p.raw, <<p.date, p.time>>>> \in Parses

\* C4: every record the pipeline holds or outputs was built from a text in
\* which parse_row_text matched (its date and time are not both empty); a
\* text for which parse_row_text returns ("", "") never becomes a record.
C4_EveryRecordMatched ==
    \A items \in {perfs, result, table, json, summary, run.out} :
        \A i \in 1..Len(items) : Matched(items[i])

C4_Witness ==
    /\ pc = "done"
    /\ frame.elems = <<RowTwoLinks, RowButton, RowManyLinks, RowClosed>>
    /\ fault = NoFault
    /\ Len(run.pass1) = 3
    /\ RowText(RowClosed) \notin Raws(json)
    /\ Len(json) >= 3

\* the records the model's page can yield, each with its sort key
PageRecords == UNION {{e.run.out[i] : i \in 1..Len(e.run.out)} : e \in Extractions}

PageKeys == {<<p, perf_sort_key(p)>> : p \in PageRecords}

PageKey(p) == (CHOOSE pk \in PageKeys : pk[1] = p)[2]

\* ascending by perf_sort_key
SortedAscending(items) ==
    \A i \in 1..(Len(items) - 1) :
        ~TupleLess(PageKey(items[i + 1]), PageKey(items[i]))

Occurrences(items, p) == Cardinality({i \in 1..Len(items) : items[i] = p})

SameRecords(a, b) ==
    /\ Len(a) = Len(b)
    /\ \A i \in 1..Len(a) : Occurrences(a, a[i]) = Occurrences(b, a[i])

\* C9 as stated: the list fetch_all returns is de-duplicated and sorted
\* ascending by perf_sort_key.
C9_ResultSortedAndDeduplicated ==
    pc \in {"main", "done"} => (NoDuplicates(result) /\ SortedAscending(result))

\* C9 amended: the list fetch_all returns, which main emits unchanged as
\* the "performances" list, is the accumulator restricted to first
\* occurrences, in scrape order; only the rows of the text table and of the
\* run summary are sorted ascending by perf_sort_key.
C9_ResultDeduplicatedTablesSorted ==
    /\ pc \in {"main", "done"} =>
           /\ IsFirstOccurrenceList(result, perfs)
           /\ NoDuplicates(result)
    /\ pc = "done" =>
           /\ json = result
           /\ SameRecords(table, result)
           /\ SortedAscending(table)
           /\ summary \in {<< >>, table}

C9_Witness ==
    /\ pc = "done"
    /\ Len(result) < Len(perfs)
    /\ ~SortedAscending(result)
    /\ json = result
    /\ table # result
    /\ summary = table

Resolved(href) == IF Char(href, 1) = "/" THEN SiteOrigin \o href ELSE href

LinkOf(controls, qualifying) ==
    IF qualifying = {} THEN ""
    ELSE Resolved(controls[CHOOSE j \in qualifying : \A k \in qualifying : j <= k].href)

\* the first anchor or button whose text holds a positive hint word
HintLink(row) ==
    LET controls == row.anchors \o row.buttons
    IN  LinkOf(controls,
               {j \in 1..Len(controls) :
                   AnyCI(controls[j].text, {"book", "select", "choose seats",
                                            "reserve", "purchase", "available"})})

\* per row text, the href and status that selection gives
HintLinkRecords ==
    {<<rt[2], HintLink(rt[1]), RuleStatus(rt[2], HintLink(rt[1]) # "")>> : rt \in RowTexts}

\* C10 as stated: the href of a Pass 1 record is the target of the first
\* anchor or button of its row whose text holds one of book, select,
\* choose seats, reserve, purchase, available (empty if there is none), and
\* the classifier is told there is a booking link exactly in that case.
C10_BookingLinkIsFirstHintControl ==
    \A i \in 1..Len(run.pass1) :
        LET p == run.pass1[i]
        IN  <<p.raw, p.href, p.status>> \in HintLinkRecords

\* the first of the first 10 anchors, then the first 10 buttons, whose text
\* holds a hint word of the link test and whose href is not empty
LinkedHintLink(row) ==
    LET controls == SubSeq(row.anchors, 1, Min(Len(row.anchors), 10))
                    \o SubSeq(row.buttons, 1, Min(Len(row.buttons), 10))
    IN  LinkOf(controls,
               {j \in 1..Len(controls) :
                   /\ AnyCI(controls[j].text, {"book", "select", "purchase",
                                               "choose", "tickets"})
                   /\ controls[j].href # ""})

AnchorQualifies(row) ==
    \E j \in 1..Min(Len(row.anchors), 10) :
        /\ AnyCI(row.anchors[j].text, {"book", "select", "purchase", "choose", "tickets"})
        /\ row.anchors[j].href # ""

\* per row text, the href and status that selection gives
LinkedHintLinkRecords ==
    {<<rt[2], LinkedHintLink(rt[1]), RuleStatus(rt[2], LinkedHintLink(rt[1]) # "")>> :
        rt \in RowTexts}

\* C10 amended: the booking link of a row is the first control, among its
\* first 10 anchors and then its first 10 buttons, whose text holds one of
\* book, select, purchase, choose, tickets and whose href is not empty; the
\* record's href is that control's target (site origin prefixed to a
\* leading "/"), the classifier is told there is a booking link exactly
\* when there is such a control, and no later control is examined: a
\* failing count of the buttons does not touch a row whose anchor qualified.
C10_BookingLinkIsFirstLinkedHintControl ==
    /\ \A i \in 1..Len(run.pass1) :
           LET p == run.pass1[i]
           IN  <<p.raw, p.href, p.status>> \in LinkedHintLinkRecords
    /\ \A k \in 1..Len(ROW_SELECTORS) :
           LET rows == Locate(frame, k)
           IN  ( /\ nframes >= 1
                 /\ ~run.raised
                 /\ fault = Fault("links.count", <<k, 1, 2>>)
                 /\ rows # << >>
                 /\ AnchorQualifies(rows[1])
                 /\ RowText(rows[1]) \in MatchingTexts )
               => RowText(rows[1]) \in Raws(run.pass1)

C10_Witness ==
    /\ nframes >= 1
    /\ fault = Fault("links.count", <<3, 1, 2>>)
    /\ \E i \in 1..Len(run.pass1) :
           /\ run.pass1[i].raw = RowText(RowTwoLinks)
           /\ run.pass1[i].href = SiteOrigin \o "/seats/17"
           /\ run.pass1[i].status = "Available"
    /\ \E i \in 1..Len(run.pass1) :
           /\ run.pass1[i].raw = RowText(RowManyLinks)
           /\ run.pass1[i].href = ""

====
